---- MODULE Spec2Model ----
(***************************************************************************)
(* axe-sarif-converter: the public convertAxeToSarif entry point           *)
(* (src/src/index.ts), the baseline matcher applyBaselineFile              *)
(* (src/src/baseline.ts) and the command-line script (src/src/cli.ts).     *)
(*                                                                         *)
(* One behaviour of the model is one run of one entry point: either a call *)
(* of convertAxeToSarif(axeResults, options) or one execution of the CLI   *)
(* script.  The statements of applyBaselineFile are separate steps, since  *)
(* the claims are about what has happened to the file system and to the    *)
(* child process at each of them.                                          *)
(***************************************************************************)
EXTENDS Integers, Sequences, FiniteSets, TLC

(***************************************************************************)
(* Bounds of the model.                                                    *)
(***************************************************************************)
\* findings a finding-set may hold
NumFindings == 2
\* input files on the command line
MaxFiles == 2
\* finding-sets in one input file holding an array
MaxSets == 2
\* largest exit code the external process ends with
MaxExitCode == 2

(***************************************************************************)
(* Values.                                                                 *)
(***************************************************************************)
\* JavaScript's undefined and null, as values of options.baselineFile
Undefined == "undefined"
Null == "null"
\* the baseline path handed over by a caller that supplies one
BaselinePath == "baseline.sarif"
\* what mkdtempSync returns, and the two files of baseline.ts:16-17
TmpDirPath == "tmp/axe-sarif-converter-baselineXXXXXX"
OriginalResultsPath == "tmp/axe-sarif-converter-baselineXXXXXX/original-results.sarif"
AnnotatedResultsPath == "tmp/axe-sarif-converter-baselineXXXXXX/annotated-results.sarif"

\* state of a result that no baseline was applied to (the property is absent)
NoState == "none"
BaselineStates == {"new", "unchanged", "updated", "absent"}

\* a log-shaped placeholder for "no log" (nothing returned, nothing assigned)
NoLog == [version |-> "nolog", runs |-> <<>>]
\* an error-shaped placeholder for "nothing thrown"
NoError == [name |-> "none", message |-> <<>>]

\* file contents: no file, text that is not JSON, or the JSON text of a log
NoFile == [kind |-> "nofile", spacing |-> 0, val |-> NoLog]
Garbage == [kind |-> "garbage", spacing |-> 0, val |-> NoLog]

\* JSON.stringify(value, null, spacing): the text, not the value
JSONstringify(value, spacing) == [kind |-> "json", spacing |-> spacing, val |-> value]
\* whether JSON.parse(text) succeeds
Parseable(text) == text.kind = "json"
\* JSON.parse(text) of a parseable text: indentation does not change the value
JSONparse(text) == text.val

(***************************************************************************)
(* Finding-sets and their conversion.  The converter itself                *)
(* (sarif-converter.ts) is not among the source files; it is modelled from *)
(* sections 3, 4.3 and 4.6 of the specification: one run per finding-set,  *)
(* one result per finding in input order, a fingerprint derived from       *)
(* ruleId and targetSelector, and no baselineState.                        *)
(***************************************************************************)
Finding(i) == [ruleId |-> i, target |-> i]

\* the finding-set holding findings 1..n, in order
AxeOf(n) == [shape |-> "v2", findings |-> [i \in 1..n |-> Finding(i)]]
\* a finding-set of no supported shape
UnsupportedAxe == [shape |-> "unsupported", findings |-> <<>>]
\* the finding-set holding the findings of `s`, in ascending order
RECURSIVE AxeFrom(_, _)
AxeFrom(s, i) ==
    IF i > NumFindings THEN <<>>
    ELSE (IF i \in s THEN <<Finding(i)>> ELSE <<>>) \o AxeFrom(s, i + 1)

AxeInputs ==
    {[shape |-> "v2", findings |-> AxeFrom(s, 1)] : s \in SUBSET (1..NumFindings)}
        \cup {UnsupportedAxe}
\* the finding-sets the input files of a CLI run hold
CliInputs == {AxeOf(0), AxeOf(NumFindings), UnsupportedAxe}

Fingerprint(f) == <<f.ruleId, f.target>>
ResultOf(f) ==
    [ruleId |-> f.ruleId, fingerprint |-> Fingerprint(f), baselineState |-> NoState]
RunOf(axe) == [results |-> [i \in 1..Len(axe.findings) |-> ResultOf(axe.findings[i])]]

ConvertThrows(axe) == axe.shape = "unsupported"
Convert(axe) == [version |-> "2.1.0", runs |-> <<RunOf(axe)>>]

(***************************************************************************)
(* The external matching process (SARIF Multitool, not part of this        *)
(* repository), modelled from section 4.5 of the specification.            *)
(***************************************************************************)
RECURSIVE AllResults(_)
AllResults(runs) ==
    IF runs = <<>> THEN <<>> ELSE Head(runs).results \o AllResults(Tail(runs))

FingerprintsOf(log) ==
    {AllResults(log.runs)[i].fingerprint : i \in 1..Len(AllResults(log.runs))}

\* the current results with no identical fingerprint in the baseline
Unmatched(current, baseline) == FingerprintsOf(current) \ FingerprintsOf(baseline)

\* the sets of unmatched fingerprints that may match at reduced confidence
PartialChoices(current, baseline) ==
    IF FingerprintsOf(baseline) = {} THEN {{}}
    ELSE SUBSET Unmatched(current, baseline)

Annotate(r, baseline, partial) ==
    [r EXCEPT !.baselineState =
        IF r.fingerprint \in FingerprintsOf(baseline) THEN "unchanged"
        ELSE IF r.fingerprint \in partial THEN "updated"
        ELSE "new"]

RECURSIVE AbsentResults(_, _)
AbsentResults(rs, current) ==
    IF rs = <<>> THEN <<>>
    ELSE (IF Head(rs).fingerprint \in FingerprintsOf(current) THEN <<>>
          ELSE <<[Head(rs) EXCEPT !.baselineState = "absent"]>>)
         \o AbsentResults(Tail(rs), current)

\* the annotated log: every field but baselineState is kept; the results only
\* the baseline has are retained, as absent, at the end of the first run
MatchResultsForward(current, baseline, partial) ==
    [current EXCEPT !.runs =
        [k \in 1..Len(current.runs) |->
            [current.runs[k] EXCEPT !.results =
                [i \in 1..Len(current.runs[k].results) |->
                    Annotate(current.runs[k].results[i], baseline, partial)]
                \o (IF k = 1 THEN AbsentResults(AllResults(baseline.runs), current)
                    ELSE <<>>)]]]

\* the logs a baseline file may hold: a past conversion of a finding-set
\* holding the first n findings
BaselineLogs == {Convert(AxeOf(n)) : n \in 0..NumFindings}
\* what the file at the baseline path may hold
BaselineContents == {NoFile, Garbage} \cup {JSONstringify(l, 0) : l \in BaselineLogs}

(***************************************************************************)
(* State.                                                                  *)
(***************************************************************************)
VARIABLES
    entry,              \* "api": a call of convertAxeToSarif; "cli": a run of cli.ts
    pc,                 \* the statement about to run
    axeResults,         \* api: the axeResults argument
    options,            \* api: the options argument, [given, baselineFile]
    argv,               \* cli: [nFiles, baselineFile]
    fileIndex,          \* cli: the input file the map callback is at (1-based)
    inputFiles,         \* cli: the finding-sets read so far, one sequence per file
    pending,            \* cli: finding-sets of the current file still to convert
    fileLogs,           \* cli: logs converted from the current file
    nested,             \* cli: the array the map over input-files builds
    sarifLogs,          \* cli: flatten(...) of that array
    combinedLog,        \* cli: combinedLog
    outputFileContent,  \* cli: outputFileContent
    written,            \* cli: what this run has written to the output path
    exitCode,           \* cli: the code passed to process.exit, 0 if not called
    cvAxe,              \* convertAxeToSarif: axeResults parameter
    cvOptions,          \* convertAxeToSarif: options after `options || {}`
    results,            \* convertAxeToSarif: the local `results`
    ret,                \* api: the value convertAxeToSarif returned
    err,                \* the error thrown and not caught
    aResults,           \* applyBaselineFile: results parameter
    aBaselineFile,      \* applyBaselineFile: baselineFile parameter
    aCaller,            \* who called applyBaselineFile
    aStatus,            \* "idle", "active", "returned" or "threw"
    nApply,             \* calls of applyBaselineFile so far
    tmpDir,             \* "none", "exists" or "removed"
    tmpFiles,           \* contents of the two files of the temporary directory
    spawnArgs,          \* the argument vector given to spawnSync
    child,              \* the external process: "notstarted", "running", "exited"
    baselineFileContent, \* what the file at the baseline path holds, once opened
    multitoolOutput,    \* what spawnSync returned
    rawAnnotated,       \* rawAnnotatedResultsContent
    annotatedResults,   \* annotatedResults
    trace               \* file-system and process events of the current invocation

cliVars ==
    <<argv, fileIndex, inputFiles, pending, fileLogs, nested, sarifLogs,
      combinedLog, outputFileContent, written, exitCode>>
cvVars == <<cvAxe, cvOptions, results, ret>>
applyArgs == <<aResults, aBaselineFile, aCaller, nApply>>
procVars == <<spawnArgs, child, baselineFileContent, multitoolOutput>>
readVars == <<rawAnnotated, annotatedResults>>
fsVars == <<tmpDir, tmpFiles>>
applyVars == <<applyArgs, aStatus, fsVars, procVars, readVars, trace>>
vars == <<entry, pc, axeResults, options, err, cliVars, cvVars, applyVars>>

NoOutput == [error |-> "", failed |-> FALSE, status |-> 0, statusNull |-> TRUE,
             stdout |-> ""]
NoTmpFiles == [p \in {OriginalResultsPath, AnnotatedResultsPath} |-> NoFile]

\* the options argument: omitted, or an object whose baselineFile is undefined,
\* null or a path
OptionValues ==
    {[given |-> FALSE, baselineFile |-> Undefined]}
        \cup {[given |-> TRUE, baselineFile |-> b] : b \in {Undefined, Null, BaselinePath}}

Init ==
    /\ entry \in {"api", "cli"}
    /\ pc = IF entry = "api" THEN "c_convert" ELSE "cli_read"
    /\ axeResults \in IF entry = "api" THEN AxeInputs ELSE {UnsupportedAxe}
    /\ options \in IF entry = "api" THEN OptionValues
                   ELSE {[given |-> FALSE, baselineFile |-> Undefined]}
    /\ argv \in IF entry = "cli"
                THEN [nFiles : 1..MaxFiles, baselineFile : {Undefined, BaselinePath}]
                ELSE {[nFiles |-> 0, baselineFile |-> Undefined]}
    /\ fileIndex = 1
    /\ inputFiles = <<>>
    /\ pending = <<>>
    /\ fileLogs = <<>>
    /\ nested = <<>>
    /\ sarifLogs = <<>>
    /\ combinedLog = NoLog
    /\ outputFileContent = NoFile
    /\ written = NoFile
    /\ exitCode = 0
    /\ cvAxe = axeResults
    \* index.ts:20  options = options || {}
    /\ cvOptions = [baselineFile |-> IF options.given THEN options.baselineFile
                                     ELSE Undefined]
    /\ results = NoLog
    /\ ret = NoLog
    /\ err = NoError
    /\ aResults = NoLog
    /\ aBaselineFile = Undefined
    /\ aCaller = "nobody"
    /\ aStatus = "idle"
    /\ nApply = 0
    /\ tmpDir = "none"
    /\ tmpFiles = NoTmpFiles
    /\ spawnArgs = <<>>
    /\ child = "notstarted"
    /\ baselineFileContent = NoFile
    /\ multitoolOutput = NoOutput
    /\ rawAnnotated = NoFile
    /\ annotatedResults = NoLog
    /\ trace = <<>>

(***************************************************************************)
(* Throwing: an uncaught error ends the run (the API call propagates it to *)
(* its caller, the CLI script dies with it).                               *)
(***************************************************************************)
Throw(e) ==
    /\ pc' = "thrown"
    /\ err' = e

\* decimal text of an exit code, as a template literal prints it
Digits == <<"0", "1", "2", "3", "4", "5", "6", "7", "8", "9">>
StatusText(o) == IF o.statusNull THEN "null" ELSE Digits[o.status + 1]

\* baseline.ts:32-35
LaunchError(o) ==
    [name |-> "Error",
     message |-> <<"Error occurred while executing SARIF Multitool to perform baselining: ",
                   o.error>>]
\* the message without the captured standard output
ExecutionErrorNoStdout(o) ==
    [name |-> "Error",
     message |-> <<"SARIF Multitool failed with exit code ", StatusText(o), ".">>]
\* baseline.ts:38-40
ExecutionError(o) ==
    [name |-> "Error",
     message |-> <<"SARIF Multitool failed with exit code ", StatusText(o),
                   ". Full output:\n", o.stdout>>]
\* what fs throws when an operation fails
SystemError(code) == [name |-> "SystemError", message |-> <<code>>]
\* what JSON.parse throws
JSONSyntaxError == [name |-> "SyntaxError", message |-> <<"Unexpected token">>]
\* what the converter throws on a finding-set of no known shape
UnsupportedInputShape == [name |-> "UnsupportedInputShape", message |-> <<>>]

(***************************************************************************)
(* applyBaselineFile (baseline.ts:10-54), one action per statement.        *)
(***************************************************************************)
\* the call itself: parameters are bound, nothing has run yet
CallApply(log, path, caller) ==
    /\ aResults' = log
    /\ aBaselineFile' = path
    /\ aCaller' = caller
    /\ nApply' = nApply + 1
    /\ aStatus' = "active"
    /\ trace' = <<>>
    /\ pc' = "a_mkdtemp"

\* baseline.ts:14-17  mkdtempSync creates the directory, or fails
Mkdtemp ==
    /\ pc = "a_mkdtemp"
    /\ \/ /\ tmpDir' = "exists"
          /\ trace' = Append(trace, "mkdtemp")
          /\ pc' = "a_write"
          /\ UNCHANGED <<err, aStatus>>
       \/ /\ Throw(SystemError("EACCES"))
          /\ aStatus' = "threw"
          /\ UNCHANGED <<tmpDir, trace>>
    /\ UNCHANGED <<entry, axeResults, options, cliVars, cvVars, applyArgs,
                   tmpFiles, procVars, readVars>>

\* baseline.ts:19-21  writeFileSync(originalResultsFile, JSON.stringify(results))
WriteOriginal ==
    /\ pc = "a_write"
    /\ \/ /\ tmpFiles' = [tmpFiles EXCEPT
                             ![OriginalResultsPath] = JSONstringify(aResults, 0)]
          /\ trace' = Append(trace, "write")
          /\ pc' = "a_spawn"
          /\ UNCHANGED <<err, aStatus>>
       \/ /\ Throw(SystemError("ENOSPC"))
          /\ aStatus' = "threw"
          /\ UNCHANGED <<tmpFiles, trace>>
    /\ UNCHANGED <<entry, axeResults, options, cliVars, cvVars, applyArgs,
                   tmpDir, procVars, readVars>>

\* the baseline and the current log in each other's place
SpawnArgsSwapped(baselineFile, annotatedResultsFile, originalResultsFile) ==
    <<"match-results-forward", "--previous", originalResultsFile,
      "--output-file-path", annotatedResultsFile, baselineFile>>
\* baseline.ts:23-30  the argument vector
SpawnArgs(baselineFile, annotatedResultsFile, originalResultsFile) ==
    <<"match-results-forward", "--previous", baselineFile,
      "--output-file-path", annotatedResultsFile, originalResultsFile>>

\* baseline.ts:23  spawnSync starts the process and blocks, or fails to start it
SpawnSync ==
    /\ pc = "a_spawn"
    /\ spawnArgs' = SpawnArgs(aBaselineFile, AnnotatedResultsPath, OriginalResultsPath)
    /\ \/ /\ child' = "running"
          /\ trace' = Append(trace, "spawn")
          /\ pc' = "a_wait"
          /\ UNCHANGED multitoolOutput
       \/ /\ multitoolOutput' = [NoOutput EXCEPT !.error = "spawn ENOENT",
                                                 !.failed = TRUE]
          /\ pc' = "a_checkError"
          /\ UNCHANGED <<child, trace>>
    /\ UNCHANGED <<entry, axeResults, options, err, cliVars, cvVars, applyArgs,
                   aStatus, fsVars, baselineFileContent, readVars>>

\* the file the process finds at `path`
FileAt(path, atBaseline) ==
    IF path \in DOMAIN tmpFiles THEN tmpFiles[path]
    ELSE IF path = BaselinePath THEN atBaseline
    ELSE NoFile

Stdouts == {"", "System.IO.FileNotFoundException"}

\* The process runs to its end while spawnSync blocks.  Either it reads the
\* file at its --previous path and its input file and then matches and writes
\* the annotated log (exit code 0) or reports on its standard output that it
\* could not read them (exit code 1); or it ends in some other way: any
\* non-zero exit code, killed by a signal (no exit code), killed by spawnSync
\* because its output overran the buffer (error set, no exit code), or exit
\* code 0 with no output file or with one that is not JSON.
ChildExits ==
    /\ pc = "a_wait"
    /\ child = "running"
    /\ LET output == spawnArgs[5]
           Exit(code, out) ==
               multitoolOutput' = [error |-> "", failed |-> FALSE, status |-> code,
                                   statusNull |-> FALSE, stdout |-> out]
           WriteOutput(text) ==
               tmpFiles' = IF output \in DOMAIN tmpFiles
                           THEN [tmpFiles EXCEPT ![output] = text]
                           ELSE tmpFiles
       IN  \/ \E atBaseline \in BaselineContents :
                LET previous == FileAt(spawnArgs[3], atBaseline)
                    current == FileAt(spawnArgs[6], atBaseline)
                IN  /\ baselineFileContent' = atBaseline
                    /\ IF Parseable(previous) /\ Parseable(current)
                       THEN /\ \E partial \in PartialChoices(JSONparse(current),
                                                             JSONparse(previous)) :
                                 WriteOutput(JSONstringify(
                                     MatchResultsForward(JSONparse(current),
                                                         JSONparse(previous), partial),
                                     2))
                            /\ Exit(0, "")
                       ELSE /\ Exit(1, "System.IO.FileNotFoundException")
                            /\ UNCHANGED tmpFiles
           \/ /\ \E code \in 1..MaxExitCode, out \in Stdouts : Exit(code, out)
              /\ UNCHANGED <<tmpFiles, baselineFileContent>>
           \/ /\ multitoolOutput' = NoOutput
              /\ UNCHANGED <<tmpFiles, baselineFileContent>>
           \/ /\ multitoolOutput' = [NoOutput EXCEPT !.error = "spawnSync ENOBUFS",
                                                     !.failed = TRUE]
              /\ UNCHANGED <<tmpFiles, baselineFileContent>>
           \/ /\ Exit(0, "")
              /\ \/ WriteOutput(Garbage)
                 \/ UNCHANGED tmpFiles
              /\ UNCHANGED baselineFileContent
    /\ child' = "exited"
    /\ trace' = Append(trace, "exit")
    /\ pc' = "a_checkError"
    /\ UNCHANGED <<entry, axeResults, options, err, cliVars, cvVars, applyArgs,
                   aStatus, tmpDir, spawnArgs, readVars>>

\* baseline.ts:31-36  if (multitoolOutput.error != null) throw
CheckError ==
    /\ pc = "a_checkError"
    /\ IF multitoolOutput.failed
       THEN /\ Throw(LaunchError(multitoolOutput))
            /\ aStatus' = "threw"
       ELSE /\ pc' = "a_checkStatus"
            /\ UNCHANGED <<err, aStatus>>
    /\ UNCHANGED <<entry, axeResults, options, cliVars, cvVars, applyArgs,
                   fsVars, procVars, readVars, trace>>

\* only a missing exit code treated as failure
CheckStatusLenient ==
    /\ pc = "a_checkStatus"
    /\ IF multitoolOutput.statusNull
       THEN /\ Throw(ExecutionError(multitoolOutput))
            /\ aStatus' = "threw"
       ELSE /\ pc' = "a_read"
            /\ UNCHANGED <<err, aStatus>>
    /\ UNCHANGED <<entry, axeResults, options, cliVars, cvVars, applyArgs,
                   fsVars, procVars, readVars, trace>>
\* baseline.ts:37-41  if (multitoolOutput.status !== 0) throw
CheckStatus ==
    /\ pc = "a_checkStatus"
    /\ IF multitoolOutput.statusNull \/ multitoolOutput.status # 0
       THEN /\ Throw(ExecutionError(multitoolOutput))
            /\ aStatus' = "threw"
       ELSE /\ pc' = "a_read"
            /\ UNCHANGED <<err, aStatus>>
    /\ UNCHANGED <<entry, axeResults, options, cliVars, cvVars, applyArgs,
                   fsVars, procVars, readVars, trace>>

\* baseline.ts:43-45  readFileSync(annotatedResultsFile)
ReadAnnotated ==
    /\ pc = "a_read"
    /\ trace' = Append(trace, "read")
    /\ IF tmpFiles[AnnotatedResultsPath] = NoFile
       THEN /\ Throw(SystemError("ENOENT"))
            /\ aStatus' = "threw"
            /\ UNCHANGED rawAnnotated
       ELSE /\ rawAnnotated' = tmpFiles[AnnotatedResultsPath]
            /\ pc' = "a_parse"
            /\ UNCHANGED <<err, aStatus>>
    /\ UNCHANGED <<entry, axeResults, options, cliVars, cvVars, applyArgs,
                   fsVars, procVars, annotatedResults>>

\* a parse failure swallowed: the log handed in is given back unannotated
ParseAnnotatedSwallow ==
    /\ pc = "a_parse"
    /\ annotatedResults' = IF Parseable(rawAnnotated) THEN JSONparse(rawAnnotated)
                           ELSE aResults
    /\ trace' = Append(trace, "parse")
    /\ pc' = "a_rmdir"
    /\ UNCHANGED <<entry, axeResults, options, err, cliVars, cvVars, applyArgs,
                   aStatus, fsVars, procVars, rawAnnotated>>
\* baseline.ts:47-49  JSON.parse(rawAnnotatedResultsContent)
ParseAnnotated ==
    /\ pc = "a_parse"
    /\ IF Parseable(rawAnnotated)
       THEN /\ annotatedResults' = JSONparse(rawAnnotated)
            /\ trace' = Append(trace, "parse")
            /\ pc' = "a_rmdir"
            /\ UNCHANGED <<err, aStatus>>
       ELSE /\ Throw(JSONSyntaxError)
            /\ aStatus' = "threw"
            /\ UNCHANGED <<annotatedResults, trace>>
    /\ UNCHANGED <<entry, axeResults, options, cliVars, cvVars, applyArgs,
                   fsVars, procVars, rawAnnotated>>

\* baseline.ts:51  rmdirSync(tmpDir, { recursive: true })
Rmdir ==
    /\ pc = "a_rmdir"
    /\ tmpDir' = "removed"
    /\ tmpFiles' = NoTmpFiles
    /\ trace' = Append(trace, "rmdir")
    /\ pc' = "a_return"
    /\ UNCHANGED <<entry, axeResults, options, err, cliVars, cvVars, applyArgs,
                   aStatus, procVars, readVars>>

\* the log handed in returned instead of the annotated one
ApplyReturnOriginal ==
    /\ pc = "a_return"
    /\ aStatus' = "returned"
    /\ IF aCaller = "convertAxeToSarif"
       THEN /\ results' = aResults
            /\ pc' = "c_return"
            /\ UNCHANGED combinedLog
       ELSE /\ combinedLog' = aResults
            /\ pc' = "cli_format"
            /\ UNCHANGED results
    /\ UNCHANGED <<entry, axeResults, options, err, argv, fileIndex, inputFiles,
                   pending, fileLogs, nested, sarifLogs, outputFileContent, written,
                   exitCode, cvAxe, cvOptions, ret, applyArgs, fsVars, procVars,
                   readVars, trace>>
\* baseline.ts:53  return annotatedResults, assigned by the caller
\* (index.ts:24  results = applyBaselineFile(...);
\*  cli.ts:117   combinedLog = applyBaselineFile(...))
ApplyReturn ==
    /\ pc = "a_return"
    /\ aStatus' = "returned"
    /\ IF aCaller = "convertAxeToSarif"
       THEN /\ results' = annotatedResults
            /\ pc' = "c_return"
            /\ UNCHANGED combinedLog
       ELSE /\ combinedLog' = annotatedResults
            /\ pc' = "cli_format"
            /\ UNCHANGED results
    /\ UNCHANGED <<entry, axeResults, options, err, argv, fileIndex, inputFiles,
                   pending, fileLogs, nested, sarifLogs, outputFileContent, written,
                   exitCode, cvAxe, cvOptions, ret, applyArgs, fsVars, procVars,
                   readVars, trace>>

(***************************************************************************)
(* convertAxeToSarif (index.ts:16-27).                                     *)
(***************************************************************************)
\* the strict `v !== null`, which holds of undefined
StrictNotNull(v) == v # Null
\* `v != null` and `v != undefined`: the loose comparison holds of neither
\* null nor undefined
LooseNotNull(v) == v \notin {Undefined, Null}

\* index.ts:21-22  let results = sarifConverter.convert(axeResults, options)
ConvertStep ==
    /\ pc = "c_convert"
    /\ IF ConvertThrows(cvAxe)
       THEN /\ Throw(UnsupportedInputShape)
            /\ UNCHANGED results
       ELSE /\ results' = Convert(cvAxe)
            /\ pc' = "c_check"
            /\ UNCHANGED err
    /\ UNCHANGED <<entry, axeResults, options, cliVars, cvAxe, cvOptions, ret,
                   applyVars>>

\* index.ts:23-25  if (options.baselineFile != null) results = applyBaselineFile(...)
CheckBaseline ==
    /\ pc = "c_check"
    /\ IF LooseNotNull(cvOptions.baselineFile)
       THEN CallApply(results, cvOptions.baselineFile, "convertAxeToSarif")
       ELSE /\ pc' = "c_return"
            /\ UNCHANGED <<applyArgs, aStatus, trace>>
    /\ UNCHANGED <<entry, axeResults, options, err, cliVars, cvVars, fsVars,
                   procVars, readVars>>

\* index.ts:26  return results: to the API's caller, or into the array the
\* CLI's map callback builds (cli.ts:98-104)
ConvertReturn ==
    /\ pc = "c_return"
    /\ IF entry = "api"
       THEN /\ ret' = results
            /\ pc' = "returned"
            /\ UNCHANGED <<fileLogs, pending>>
       ELSE /\ fileLogs' = Append(fileLogs, results)
            /\ pending' = Tail(pending)
            /\ pc' = "cli_map"
            /\ UNCHANGED ret
    /\ UNCHANGED <<entry, axeResults, options, err, argv, fileIndex, inputFiles,
                   nested, sarifLogs, combinedLog, outputFileContent, written,
                   exitCode, cvAxe, cvOptions, results, applyVars>>

(***************************************************************************)
(* The CLI script (cli.ts:66-140).                                         *)
(***************************************************************************)
\* the baseline path passed down to every conversion
converterOptionsWithBaseline == [baselineFile |-> argv.baselineFile]
\* cli.ts:68-71  baselineFile is omitted on purpose
converterOptions == [baselineFile |-> Undefined]

\* each next array put in front of the accumulator instead of behind it
RECURSIVE flattenReversed(_)
flattenReversed(nestedArray) ==
    IF nestedArray = <<>> THEN <<>>
    ELSE flattenReversed(Tail(nestedArray)) \o Head(nestedArray)
\* cli.ts:78-83
RECURSIVE flatten(_)
flatten(nestedArray) ==
    IF nestedArray = <<>> THEN <<>>
    ELSE Head(nestedArray) \o flatten(Tail(nestedArray))

SeqsUpTo(S, n) == UNION {[1..k -> S] : k \in 0..n}

\* what an input file may be: unreadable, not JSON, one finding-set object, or
\* an array of finding-set objects
InputFileContents ==
    {[kind |-> k, sets |-> <<>>] : k \in {"unreadable", "invalid"}}
        \cup {[kind |-> "object", sets |-> <<x>>] : x \in CliInputs}
        \cup {[kind |-> "array", sets |-> s] : s \in SeqsUpTo(CliInputs, MaxSets)}

\* cli.ts:86-96  the map callback reads and parses input file fileIndex
CliRead ==
    /\ pc = "cli_read"
    /\ fileIndex <= argv.nFiles
    /\ \E file \in InputFileContents :
        /\ inputFiles' = Append(inputFiles, file.sets)
        /\ IF file.kind = "unreadable" THEN
                /\ Throw(SystemError("ENOENT"))
                /\ UNCHANGED <<pending, fileLogs>>
           ELSE IF file.kind = "invalid" THEN
                /\ Throw(JSONSyntaxError)
                /\ UNCHANGED <<pending, fileLogs>>
           ELSE /\ pending' = file.sets
                /\ fileLogs' = <<>>
                /\ pc' = "cli_map"
                /\ UNCHANGED err
    /\ UNCHANGED <<entry, axeResults, options, argv, fileIndex, nested, sarifLogs,
                   combinedLog, outputFileContent, written, exitCode, cvVars,
                   applyVars>>

\* cli.ts:98-104  convertAxeToSarif(input, converterOptions) on the next
\* finding-set of the file
CliConvertNext ==
    /\ pc = "cli_map"
    /\ pending # <<>>
    /\ cvAxe' = Head(pending)
    /\ cvOptions' = converterOptions
    /\ pc' = "c_convert"
    /\ UNCHANGED <<entry, axeResults, options, err, cliVars, results, ret,
                   applyVars>>

\* cli.ts:86-106  the callback returns the file's logs; map goes on to the
\* next file
CliFileDone ==
    /\ pc = "cli_map"
    /\ pending = <<>>
    /\ nested' = Append(nested, fileLogs)
    /\ fileIndex' = fileIndex + 1
    /\ pc' = IF fileIndex = argv.nFiles THEN "cli_combine" ELSE "cli_read"
    /\ UNCHANGED <<entry, axeResults, options, err, argv, inputFiles, pending,
                   fileLogs, sarifLogs, combinedLog, outputFileContent, written,
                   exitCode, cvVars, applyVars>>

\* the runs of the logs, log by log (cli.ts:112  sarifLogs.map(log => log.runs))
RunsOf(logs) == [i \in 1..Len(logs) |-> logs[i].runs]

\* cli.ts:110-113  { ...sarifLogs[0], runs: flatten(sarifLogs.map(log => log.runs)) }
\* (spreading the undefined sarifLogs[0] of an empty array adds no field)
Combine(logs) ==
    [version |-> IF logs = <<>> THEN "absent" ELSE logs[1].version,
     runs |-> flatten(RunsOf(logs))]

\* cli.ts:85, 109-113
CliCombine ==
    /\ pc = "cli_combine"
    /\ sarifLogs' = flatten(nested)
    /\ combinedLog' = Combine(flatten(nested))
    /\ pc' = "cli_baseline"
    /\ UNCHANGED <<entry, axeResults, options, err, argv, fileIndex, inputFiles,
                   pending, fileLogs, nested, outputFileContent, written, exitCode,
                   cvVars, applyVars>>

\* the combined log written out before the baseline is applied to it
CliBaselineAfterWrite ==
    /\ pc = "cli_baseline"
    /\ written' = JSONstringify(combinedLog, 0)
    /\ IF LooseNotNull(argv.baselineFile)
       THEN CallApply(combinedLog, argv.baselineFile, "cli")
       ELSE /\ pc' = "cli_format"
            /\ UNCHANGED <<applyArgs, aStatus, trace>>
    /\ UNCHANGED <<entry, axeResults, options, err, argv, fileIndex, inputFiles,
                   pending, fileLogs, nested, sarifLogs, combinedLog,
                   outputFileContent, exitCode, cvVars, fsVars, procVars, readVars>>
\* cli.ts:115-118
CliBaseline ==
    /\ pc = "cli_baseline"
    /\ IF LooseNotNull(argv.baselineFile)
       THEN CallApply(combinedLog, argv.baselineFile, "cli")
       ELSE /\ pc' = "cli_format"
            /\ UNCHANGED <<applyArgs, aStatus, trace>>
    /\ UNCHANGED <<entry, axeResults, options, err, cliVars, cvVars, fsVars,
                   procVars, readVars>>

\* cli.ts:120-122  (--pretty is read here and nowhere else)
CliFormat ==
    /\ pc = "cli_format"
    /\ \E pretty \in BOOLEAN :
        outputFileContent' = JSONstringify(combinedLog, IF pretty THEN 2 ELSE 0)
    /\ pc' = "cli_write"
    /\ UNCHANGED <<entry, axeResults, options, err, argv, fileIndex, inputFiles,
                   pending, fileLogs, nested, sarifLogs, combinedLog, written,
                   exitCode, cvVars, applyVars>>

\* cli.ts:124-140  writeFileSync with flag 'w' or 'wx' (--force is read here
\* and nowhere else); EEXIST ends the process with code 1, any other failure
\* is rethrown
CliWrite ==
    /\ pc = "cli_write"
    /\ \E force \in BOOLEAN, exists \in BOOLEAN :
        \/ /\ exists /\ ~force
           /\ exitCode' = 1
           /\ pc' = "exited"
           /\ UNCHANGED <<written, err>>
        \/ /\ ~exists \/ force
           /\ written' = outputFileContent
           /\ pc' = "cli_done"
           /\ UNCHANGED <<exitCode, err>>
        \/ /\ Throw(SystemError("EACCES"))
           /\ UNCHANGED <<written, exitCode>>
    /\ UNCHANGED <<entry, axeResults, options, argv, fileIndex, inputFiles,
                   pending, fileLogs, nested, sarifLogs, combinedLog,
                   outputFileContent, cvVars, applyVars>>

Next ==
    \/ ConvertStep
    \/ CheckBaseline
    \/ ConvertReturn
    \/ Mkdtemp
    \/ WriteOriginal
    \/ SpawnSync
    \/ ChildExits
    \/ CheckError
    \/ CheckStatus
    \/ ReadAnnotated
    \/ ParseAnnotated
    \/ Rmdir
    \/ ApplyReturn
    \/ CliRead
    \/ CliConvertNext
    \/ CliFileDone
    \/ CliCombine
    \/ CliBaseline
    \/ CliFormat
    \/ CliWrite

Spec == Init /\ [][Next]_vars

(***************************************************************************)
(* Properties.                                                             *)
(***************************************************************************)
ApplyEnded == aStatus \in {"returned", "threw"}
Includes(message, part) == \E i \in 1..Len(message) : message[i] = part
IsPrefix(s, t) == Len(s) <= Len(t) /\ \A i \in 1..Len(s) : s[i] = t[i]
ExitedWithZero ==
    /\ child = "exited"
    /\ ~multitoolOutput.failed
    /\ ~multitoolOutput.statusNull
    /\ multitoolOutput.status = 0
ExitedNonZero ==
    /\ child = "exited"
    /\ ~multitoolOutput.failed
    /\ ~multitoolOutput.statusNull
    /\ multitoolOutput.status # 0
FileWasRead == Includes(trace, "read")
AllStates(log, state) ==
    \A i \in 1..Len(AllResults(log.runs)) :
        AllResults(log.runs)[i].baselineState = state

\* the runs of the finding-sets of the input files read, in reading order
RECURSIVE RunsOfSets(_)
RunsOfSets(sets) ==
    IF sets = <<>> THEN <<>> ELSE <<RunOf(Head(sets))>> \o RunsOfSets(Tail(sets))
RECURSIVE RunsOfFiles(_)
RunsOfFiles(files) ==
    IF files = <<>> THEN <<>> ELSE RunsOfSets(Head(files)) \o RunsOfFiles(Tail(files))
RECURSIVE SumOfRunCounts(_)
SumOfRunCounts(logs) ==
    IF logs = <<>> THEN 0 ELSE Len(Head(logs).runs) + SumOfRunCounts(Tail(logs))

\* C1: whenever an invocation of applyBaselineFile has returned or thrown, the
\* temporary directory it created is gone.
TmpDirRemovedOnEveryExit == ApplyEnded => tmpDir # "exists"

\* C2: applyBaselineFile returns only when the process started and exited
\* with code 0; when spawnSync reports an error (the process could not start)
\* it throws an error whose message includes the cause; when the process exited with a non-zero code it
\* throws an error whose message includes that code and the captured standard
\* output; in neither case has the annotated file been read.
LogOnlyOnCleanExit ==
    /\ aStatus = "returned" => ExitedWithZero
    /\ (ApplyEnded /\ multitoolOutput.failed) =>
            /\ aStatus = "threw"
            /\ pc = "thrown"
            /\ Includes(err.message, multitoolOutput.error)
            /\ ~FileWasRead
            /\ rawAnnotated = NoFile
    /\ (ApplyEnded /\ ExitedNonZero) =>
            /\ aStatus = "threw"
            /\ pc = "thrown"
            /\ Includes(err.message, Digits[multitoolOutput.status + 1])
            /\ Includes(err.message, multitoolOutput.stdout)
            /\ ~FileWasRead
            /\ rawAnnotated = NoFile
NonZeroExitThrown ==
    /\ aStatus = "threw"
    /\ ExitedNonZero
    /\ multitoolOutput.status = 1
    /\ multitoolOutput.stdout = "System.IO.FileNotFoundException"
    /\ baselineFileContent = NoFile

\* C3: when the process exited with code 0 and the annotated file it left is
\* not JSON, applyBaselineFile throws the parser's error, which is neither the
\* launch error nor the execution error, and hands back no log.
ParseFailureIsItsOwnError ==
    (ExitedWithZero /\ rawAnnotated # NoFile /\ ~Parseable(rawAnnotated)
        /\ pc # "a_parse") =>
            /\ aStatus = "threw"
            /\ pc = "thrown"
            /\ err.name = "SyntaxError"
            /\ err.name # LaunchError(multitoolOutput).name
            /\ err.name # ExecutionError(multitoolOutput).name
            /\ annotatedResults = NoLog
            /\ ret = NoLog
            /\ written = NoFile
UnparseableOutputThrown ==
    /\ aStatus = "threw"
    /\ ExitedWithZero
    /\ rawAnnotated = Garbage

\* C4: in a CLI run applyBaselineFile is called at most once, by the script
\* itself and never from a conversion; it is called with the combined log of
\* all input finding-sets and the baseline path of the command line; and once
\* the script is past the baseline step it has been called exactly once if a
\* baseline path was given and not at all otherwise.
BaselineOnceOnCombinedLog ==
    entry = "cli" =>
        /\ nApply <= 1
        /\ nApply = 1 =>
            /\ argv.baselineFile # Undefined
            /\ aCaller = "cli"
            /\ aBaselineFile = argv.baselineFile
            /\ Len(inputFiles) = argv.nFiles
            /\ aResults.runs = RunsOfFiles(inputFiles)
        /\ pc \in {"cli_format", "cli_write", "cli_done", "exited"} =>
            nApply = IF argv.baselineFile # Undefined THEN 1 ELSE 0
        /\ pc \in {"cli_read", "cli_map", "c_convert", "c_check", "c_return",
                   "cli_combine", "cli_baseline"} => nApply = 0
BaselineAppliedToManyRuns ==
    /\ entry = "cli"
    /\ pc = "cli_done"
    /\ nApply = 1
    /\ Len(inputFiles) = 2
    /\ Len(aResults.runs) >= 3

\* C5: the combined log's runs are the runs of the converted logs, log after
\* log in input order (files in argument order, finding-sets in array order),
\* as many as the logs have together; its version is the first log's.
CombinedRunsAreConcatenation ==
    (entry = "cli" /\ combinedLog # NoLog /\ aStatus # "returned") =>
        /\ Len(combinedLog.runs) = SumOfRunCounts(sarifLogs)
        /\ \A i \in 1..Len(sarifLogs) :
            /\ Len(sarifLogs[i].runs) = 1
            /\ combinedLog.runs[i] = sarifLogs[i].runs[1]
        /\ combinedLog.runs = RunsOfFiles(inputFiles)
        /\ sarifLogs # <<>> => combinedLog.version = sarifLogs[1].version
CombinedThreeRuns ==
    /\ entry = "cli"
    /\ pc = "cli_baseline"
    /\ Len(combinedLog.runs) = 3
    /\ combinedLog.runs[1] # combinedLog.runs[2]
    /\ Len(inputFiles) = 2

\* C6: convertAxeToSarif calls applyBaselineFile exactly when
\* options.baselineFile is supplied.  Supplied: it returns what
\* applyBaselineFile returned for the converted single-run log and that path.
\* Not supplied (options omitted, baselineFile undefined or null): it returns
\* the converted log, no process was started, no temporary directory was
\* created, and no result has a baselineState.
BaselineAppliedIffSupplied ==
    entry = "api" =>
        LET supplied == options.given /\ options.baselineFile \notin {Undefined, Null}
        IN  /\ ~supplied =>
                /\ nApply = 0
                /\ child = "notstarted"
                /\ spawnArgs = <<>>
                /\ tmpDir = "none"
            /\ (pc = "returned" /\ ~supplied) =>
                /\ ret = Convert(axeResults)
                /\ AllStates(ret, NoState)
            /\ (pc = "returned" /\ supplied) =>
                /\ nApply = 1
                /\ aStatus = "returned"
                /\ aResults = Convert(axeResults)
                /\ Len(aResults.runs) = 1
                /\ aBaselineFile = options.baselineFile
                /\ ret = annotatedResults
                /\ ret = JSONparse(rawAnnotated)
BaselineAppliedByApi ==
    /\ entry = "api"
    /\ pc = "returned"
    /\ options.baselineFile = BaselinePath
    /\ Len(ret.runs[1].results) = NumFindings
    /\ ~AllStates(ret, NoState)

\* C7: a run that ends with an uncaught error has returned no log and written
\* no output file, and a failure of applyBaselineFile always ends the run
\* that way; the output file is written only at the end of a CLI run in which
\* every input file was converted and the baseline step, if asked for,
\* returned, and it holds the final combined log.
NoPartialResult ==
    /\ pc = "thrown" => (err # NoError /\ ret = NoLog /\ written = NoFile)
    /\ aStatus = "threw" => pc = "thrown"
    /\ pc = "exited" => written = NoFile
    /\ ret # NoLog => (entry = "api" /\ pc = "returned")
    /\ written # NoFile =>
        /\ entry = "cli"
        /\ pc = "cli_done"
        /\ Len(nested) = argv.nFiles
        /\ Len(sarifLogs) = Len(RunsOfFiles(inputFiles))
        /\ aStatus = IF argv.baselineFile # Undefined THEN "returned" ELSE "idle"
        /\ Parseable(written)
        /\ JSONparse(written) = combinedLog
CliBaselineFailureWritesNothing ==
    /\ entry = "cli"
    /\ pc = "thrown"
    /\ aStatus = "threw"
    /\ Len(sarifLogs) >= 2
    /\ written = NoFile

\* C8: when the baseline file holds the log of converting X and X is
\* converted again with that baseline, every result of the returned log's run
\* has baselineState "unchanged" (and the run has one result per finding).
SelfBaselineUnchanged ==
    (entry = "api" /\ pc = "returned" /\ aStatus = "returned"
        /\ baselineFileContent = JSONstringify(Convert(axeResults), 0)) =>
            /\ Len(ret.runs) = 1
            /\ Len(ret.runs[1].results) = Len(axeResults.findings)
            /\ \A i \in 1..Len(ret.runs[1].results) :
                ret.runs[1].results[i].baselineState = "unchanged"
SelfBaselineApplied ==
    /\ entry = "api"
    /\ pc = "returned"
    /\ aStatus = "returned"
    /\ baselineFileContent = JSONstringify(Convert(axeResults), 0)
    /\ Len(ret.runs[1].results) = NumFindings

\* C9: when the baseline file holds a log with no results and the log handed
\* to applyBaselineFile has at least one, every result of the log it returns
\* has baselineState "new" (and no result is lost or added).
EmptyBaselineAllNew ==
    (aStatus = "returned" /\ Parseable(baselineFileContent)
        /\ AllResults(JSONparse(baselineFileContent).runs) = <<>>
        /\ AllResults(aResults.runs) # <<>>) =>
            /\ Len(AllResults(annotatedResults.runs)) = Len(AllResults(aResults.runs))
            /\ AllStates(annotatedResults, "new")
            /\ (entry = "api" /\ pc = "returned") => AllStates(ret, "new")
            /\ (entry = "cli" /\ pc = "cli_done") => AllStates(combinedLog, "new")
EmptyBaselineApplied ==
    /\ entry = "api"
    /\ pc = "returned"
    /\ aStatus = "returned"
    /\ baselineFileContent = JSONstringify(Convert(AxeOf(0)), 0)
    /\ Len(AllResults(ret.runs)) = NumFindings

\* C10: the steps of one invocation happen in the order: create the temporary
\* directory, write the current log, start the process, the process exits,
\* read the annotated file, parse it.  The process is started only with the
\* complete current log in the original-results file and with the
\* forward-matching verb, the baseline path, the output path and the
\* original-results path; applyBaselineFile goes on only once the process has
\* exited; the annotated file is read only after exit code 0.
ProtocolOrder ==
    /\ IsPrefix(trace, <<"mkdtemp", "write", "spawn", "exit", "read", "parse", "rmdir">>)
    /\ (child # "notstarted" /\ tmpDir = "exists") =>
            tmpFiles[OriginalResultsPath] = JSONstringify(aResults, 0)
    /\ child # "notstarted" => tmpDir # "none"
    /\ spawnArgs # <<>> =>
            spawnArgs = <<"match-results-forward", "--previous", aBaselineFile,
                          "--output-file-path", AnnotatedResultsPath,
                          OriginalResultsPath>>
    /\ child = "running" => pc = "a_wait"
    /\ FileWasRead => ExitedWithZero
    /\ rawAnnotated # NoFile => ExitedWithZero
WholeProtocolRun ==
    trace = <<"mkdtemp", "write", "spawn", "exit", "read", "parse", "rmdir">>

====
